---- MODULE Spec2Model ----
(***************************************************************************)
(* Model of the portfolio generation endpoint (POST handler of the         *)
(* generate-portfolio-code route): request intake, the call to the text    *)
(* generation service, the bracket-scanning extraction of the JSON         *)
(* payload, the two sequential inserts (portfolio_data, then portfolios)   *)
(* and the catch-all fallback.  Several requests run interleaved: every    *)
(* `await` of the handler is a point where another request may run.        *)
(***************************************************************************)
EXTENDS Integers, Sequences, FiniteSets, TLC

\* ------------------------------------------------------------------ bounds
NumRequests == 2
MaxClock == 1
MaxTextLen == 6
MaxAuthChanges == 2

Requests == 1..NumRequests

\* ------------------------------------------------------- request payloads
\* The value of the structuredData field of the parsed payload:
\*   "absent"  the field is missing (undefined)
\*   "falsy"   the field is present with a falsy value (null, "", 0, false)
\*   "noName"  an object without personal_info.name
\*   "strName" an object whose personal_info.name is the string "Ann B"
\*   "numName" an object whose personal_info.name is a number
\* userId "" stands for an absent (or empty, falsy) user identity.

\* json = FALSE: the request body is not JSON, or is JSON that cannot be
\* destructured (null); request.json() or the destructuring throws.
Payloads ==
    { [json |-> FALSE, structuredData |-> "absent", userId |-> ""],
      [json |-> TRUE, structuredData |-> "absent", userId |-> ""],
      [json |-> TRUE, structuredData |-> "absent", userId |-> "u1"],
      [json |-> TRUE, structuredData |-> "falsy", userId |-> "u1"],
      [json |-> TRUE, structuredData |-> "noName", userId |-> ""],
      [json |-> TRUE, structuredData |-> "strName", userId |-> "u1"],
      [json |-> TRUE, structuredData |-> "numName", userId |-> "u1"] }

NoPayload == [json |-> FALSE, structuredData |-> "none", userId |-> ""]

\* ------------------------------------------------ generation service text
\* The response text is a sequence of characters.  "{" and "}" are the
\* braces; "h", "c", "j" each stand for one complete member "html": "...",
\* "css": "...", "js": "..."; "n" stands for the key of a member whose value
\* is the object that follows it; "1" is a number literal; "x" is any other
\* character (prose).
Texts ==
    { <<"x">>,
      <<"x", "{", "h", "c", "j", "}", "x">>,
      <<"{", "h", "}">>,
      <<"}", "1", "{">>,
      <<"{", "h">>,
      <<"h", "}">>,
      <<"{", "h", "}", "x", "{", "c", "}">> }

\* What `await generateText(...)` produces: it rejects, or resolves to a text.
GenerateTextOutcomes ==
    { [ok |-> FALSE, text |-> <<>>] } \cup [ok : {TRUE}, text : Texts]

KeyOf(ch) ==
    CASE ch = "h" -> "html"
      [] ch = "c" -> "css"
      [] ch = "j" -> "js"
      [] OTHER -> "extra"

\* ------------------------------------------------ String.prototype helpers
\* indexOf / lastIndexOf: 0-based position of the character, or -1.
Positions(s, ch) == { i \in 1..Len(s) : s[i] = ch }

Min(S) == CHOOSE m \in S : \A k \in S : m <= k
Max(S) == CHOOSE m \in S : \A k \in S : m >= k

IndexOf(s, ch) == IF Positions(s, ch) = {} THEN -1 ELSE Min(Positions(s, ch)) - 1

LastIndexOf(s, ch) == IF Positions(s, ch) = {} THEN -1 ELSE Max(Positions(s, ch)) - 1

Clamp(i, n) == IF i < 0 THEN 0 ELSE IF i > n THEN n ELSE i

\* substring(a, b): both indices clamped to [0, length], swapped when a > b,
\* characters a .. b-1 (0-based).
Substring(s, a, b) ==
    LET ca == Clamp(a, Len(s))
        cb == Clamp(b, Len(s))
        lo == IF ca <= cb THEN ca ELSE cb
        hi == IF ca <= cb THEN cb ELSE ca
    IN  SubSeq(s, lo + 1, hi)

\* ------------------------------------------------------------- JSON.parse
\* Grammar of the texts that parse:  Value ::= Object | "1",
\* Object ::= "{" Member* "}", Member ::= "h" | "c" | "j" | "n" Object.
\* ObjectEnd(s, i) is the position right after the object that starts at
\* position i, or 0 when there is none.
RECURSIVE ObjectEnd(_, _), MembersEnd(_, _)
ObjectEnd(s, i) ==
    IF i > Len(s) \/ s[i] # "{" THEN 0 ELSE MembersEnd(s, i + 1)

MembersEnd(s, i) ==
    IF i > Len(s) THEN 0
    ELSE IF s[i] = "}" THEN i + 1
    ELSE IF s[i] \in {"h", "c", "j"} THEN MembersEnd(s, i + 1)
    ELSE IF s[i] = "n"
         THEN LET e == ObjectEnd(s, i + 1) IN IF e = 0 THEN 0 ELSE MembersEnd(s, e)
    ELSE 0

\* Nesting depth of position i: braces opened minus braces closed before it.
Depth(s, i) ==
    Cardinality({ k \in 1..(i - 1) : s[k] = "{" })
    - Cardinality({ k \in 1..(i - 1) : s[k] = "}" })

\* JSON.parse succeeds iff the whole string is one value.
JSONParses(s) == s = <<"1">> \/ (Len(s) > 0 /\ ObjectEnd(s, 1) = Len(s) + 1)

\* The keys of the parsed object (its top-level members).
ParsedKeys(s) ==
    { KeyOf(s[i]) : i \in { k \in 1..Len(s) : s[k] \in {"h", "c", "j", "n"} /\ Depth(s, k) = 1 } }

\* The number 1 as a parsed value: reading .html, .css or .js of it gives
\* undefined, so it has none of these keys; its one entry is its literal.
NumberValue == [ k \in {"literal"} |-> <<"number", "1">> ]

\* The parsed value: the number, or the object in which each present key maps
\* to the value the text gave it.
JSONParse(s) ==
    IF s = <<"1">> THEN NumberValue
    ELSE [ k \in ParsedKeys(s) |-> <<"generated", k>> ]

\* Variant of lines 52-61 that yields an empty object where the scan or the
\* parse fails.
ExtractGeneratedCode_lenient(geminiResponse) ==
    LET jsonStart == IndexOf(geminiResponse, "{")
        jsonEnd == LastIndexOf(geminiResponse, "}")
        jsonString == Substring(geminiResponse, jsonStart, jsonEnd + 1)
    IN  IF jsonStart # -1 /\ jsonEnd # -1 /\ JSONParses(jsonString)
        THEN [ok |-> TRUE, value |-> JSONParse(jsonString)]
        ELSE [ok |-> TRUE, value |-> << >>]

\* Lines 52-61: the bracket scan.  ok = FALSE when the scan or the parse
\* throws; otherwise value is the parsed generatedCode.
ExtractGeneratedCode(geminiResponse) ==
    LET jsonStart == IndexOf(geminiResponse, "{")
        jsonEnd == LastIndexOf(geminiResponse, "}")
        jsonString == Substring(geminiResponse, jsonStart, jsonEnd + 1)
    IN  IF jsonStart = -1 \/ jsonEnd = -1
        THEN [ok |-> FALSE, value |-> << >>]
        ELSE IF ~JSONParses(jsonString)
        THEN [ok |-> FALSE, value |-> << >>]
        ELSE [ok |-> TRUE, value |-> JSONParse(jsonString)]

\* ------------------------------------------------------------------ state
VARIABLES
    apiKey,          \* process.env.GOOGLE_GENERATIVE_AI_API_KEY is set
    now,             \* the latest reading of the clock (Date.now())
    pc,              \* per request: the await the handler is suspended at
    request,         \* per request: the payload it carries
    geminiResponse,  \* per request: how the generation call settled, once settled
    generatedCode,   \* per request: the parsed generation result, once parsed
    portfolioData,   \* per request: the id returned by the portfolio_data insert (0: none)
    pendingInsert,   \* per request: the portfolios row whose insert is in flight
    response,        \* per request: the responses sent, in order
    trace,           \* per request: the external calls issued and their results
    portfolio_data,  \* the rows of table portfolio_data
    portfolios       \* the rows of table portfolios

postVars == << apiKey, now, pc, request, geminiResponse, generatedCode, portfolioData,
               pendingInsert, response, trace, portfolio_data, portfolios >>

\* The extraction step on its own (lines 52-61), applied to any text.
VARIABLES
    rawText,         \* the text the generation service has produced so far
    extraction       \* the outcome of the bracket scan on rawText, once run

extractVars == << rawText, extraction >>

NotExtracted == [ran |-> FALSE, ok |-> FALSE, value |-> << >>]

ExtractInit == rawText = << >> /\ extraction = NotExtracted

\* The auth provider (AuthProvider) and the route guard (AuthGuard) under it.
VARIABLES
    session,         \* the user the auth service currently holds ("null": none)
    authEvents,      \* auth-change events emitted and not yet delivered
    emitted,         \* how many auth changes have happened
    provider,        \* "new", "mounted" (effect ran) or "unmounted" (cleanup ran)
    user,            \* AuthProvider state: user
    loading,         \* AuthProvider state: loading
    initializeAuth,  \* "idle", "called", "sampled" (getCurrentUser read the session), "done"
    currentUser,     \* the value getCurrentUser() resolves to
    lastEvent,       \* the user of the most recently delivered event ("none": none yet)
    signingIn,       \* a signIn call is in flight
    requireAuth,     \* AuthGuard prop
    onAuthPath,      \* pathname.startsWith("/auth")
    effectPending,   \* AuthGuard's effect has to run for the committed state
    rendered,        \* what AuthGuard rendered for the committed state
    redirects        \* the router.replace calls made, with the state they were made in

authVars == << session, authEvents, emitted, provider, user, loading, initializeAuth,
               currentUser, lastEvent, signingIn, requireAuth, onAuthPath,
               effectPending, rendered, redirects >>

AuthInit ==
    /\ session = "null"
    /\ authEvents = << >>
    /\ emitted = 0
    /\ provider = "new"
    /\ user = "null"
    /\ loading = TRUE
    /\ initializeAuth = "idle"
    /\ currentUser = "null"
    /\ lastEvent = "none"
    /\ signingIn = FALSE
    /\ requireAuth = TRUE
    /\ onAuthPath = FALSE
    /\ effectPending = FALSE
    /\ rendered = "nothing"
    /\ redirects = {}

\* The dashboard page (DashboardPage, fetchData).
VARIABLES
    dashPc,          \* "new", "getUser", "queries", "done", or "rejected" (fetchData rejected)
    dashLoading,     \* DashboardPage state: loading
    dashUser,        \* the user id getUser() resolved to ("null": none)
    queries,         \* per read: "idle", "pending", "data", "nodata" or "rejected"
    shown            \* the reads whose rows were put into the page state

dashVars == << dashPc, dashLoading, dashUser, queries, shown >>

Reads == {"profiles", "resumes", "portfolios"}

DashInit ==
    /\ dashPc = "new"
    /\ dashLoading = TRUE
    /\ dashUser = "null"
    /\ queries = [q \in Reads |-> "idle"]
    /\ shown = {}

otherVars == << extractVars, authVars, dashVars >>

vars == << postVars, otherVars >>

NoOutcome == [ok |-> FALSE, text |-> <<"pending">>]
NoCode == [defined |-> FALSE, value |-> << >>]
NoRow == [user_id |-> "", portfolio_data_id |-> 0, title |-> "", slug |-> << >>,
          html_content |-> << >>, css_content |-> << >>, js_content |-> << >>,
          is_published |-> FALSE, view_count |-> 0]

PostInit ==
    /\ apiKey \in BOOLEAN
    /\ now = 0
    /\ pc = [r \in Requests |-> "idle"]
    /\ request = [r \in Requests |-> NoPayload]
    /\ geminiResponse = [r \in Requests |-> NoOutcome]
    /\ generatedCode = [r \in Requests |-> NoCode]
    /\ portfolioData = [r \in Requests |-> 0]
    /\ pendingInsert = [r \in Requests |-> NoRow]
    /\ response = [r \in Requests |-> << >>]
    /\ trace = [r \in Requests |-> << >>]
    /\ portfolio_data = {}
    /\ portfolios = {}

\* No request ever arrives: the handler's state as seen by the other components.
PostIdle == PostInit /\ apiKey = TRUE

Init == PostInit /\ ExtractInit /\ AuthInit /\ DashInit

\* ----------------------------------------------------------- the responses
\* Lines 137-153: the hardcoded fallback triple.
fallbackPortfolio == [ k \in {"html", "css", "js"} |-> <<"fallback", k>> ]

\* Line 11.
MissingInputResponse ==
    [status |-> 400, body |-> [error |-> "No structured data provided"]]

\* Variant of lines 130-133 that answers with the stored record's identifiers.
SuccessResponse_record(code) ==
    [status |-> 200,
     body |-> [success |-> TRUE,
               portfolio |-> [ k \in {"id", "slug", "title"} |-> <<"stored", k>> ]]]

\* Lines 130-133.
SuccessResponse(code) ==
    [status |-> 200, body |-> [success |-> TRUE, portfolio |-> code]]

\* Variant of line 154 that surfaces the failure as a server error.
CatchResponse_500 ==
    [status |-> 500, body |-> [error |-> "Internal Server Error"]]

\* Line 154: what the catch block returns, whatever was thrown.
CatchResponse ==
    [status |-> 200, body |-> [success |-> TRUE, portfolio |-> fallbackPortfolio]]

\* The handler returns: the response is sent and the request is over.
Return(r, resp) ==
    /\ response' = [response EXCEPT ![r] = Append(@, resp)]
    /\ pc' = [pc EXCEPT ![r] = "done"]

\* ------------------------------------------------------ conditions of POST
\* Variant of the line 10 check that only rejects a present falsy value.
MissingStructuredData_presentOnly(p) == p.structuredData = "falsy"

\* Line 10: !structuredData.
MissingStructuredData(p) == p.structuredData \in {"absent", "falsy"}

\* Variant of the line 15 check that never fires.
MissingApiKey_unchecked == FALSE

\* Line 15: !apiKey.
MissingApiKey == ~apiKey

\* Variant of the line 63 check that persists for every request.
HasUserId_always(p) == TRUE

\* Line 63: if (userId).
HasUserId(p) == p.userId # ""

\* Variant of the line 82 check that ignores the error.
DataInsertFailed_ignored(dataError) == FALSE

\* Line 82: if (dataError).
DataInsertFailed(dataError) == dataError

\* Variant of the line 119 check that ignores the error.
PortfolioInsertFailed_ignored(portfolioError) == FALSE

\* Line 119: if (portfolioError).
PortfolioInsertFailed(portfolioError) == portfolioError

\* Lines 94-95: personal_info.name?.toLowerCase() is a TypeError when the
\* name is neither nullish nor a string.
SlugThrows(p) == p.structuredData = "numName"

\* Line 94: name ?? "Untitled Portfolio".
Title(p) == IF p.structuredData = "strName" THEN "Ann B" ELSE "Untitled Portfolio"

\* Line 95: lowercased name with whitespace runs replaced by "-", or
\* "portfolio", followed by "-" and Date.now().
Slug(p, t) == << IF p.structuredData = "strName" THEN "ann-b" ELSE "portfolio", t >>

\* Variant of lines 99-101 without the ?? "" defaults: a missing key is
\* stored as null.
Content_null(code, key) == IF key \in DOMAIN code THEN code[key] ELSE <<"null">>

\* Lines 99-101: generatedCode.<key> ?? "" (the empty string is << >>).
Content(code, key) == IF key \in DOMAIN code THEN code[key] ELSE << >>

\* Lines 67-78: the row given to the portfolio_data insert.
PortfolioDataRow(p) ==
    [user_id |-> p.userId, personal_info |-> p.structuredData, ai_enhanced |-> TRUE]

\* Lines 91-115: the row given to the portfolios insert.
PortfolioRow(p, dataId, code, t) ==
    [user_id |-> p.userId,
     portfolio_data_id |-> dataId,
     title |-> Title(p),
     slug |-> Slug(p, t),
     html_content |-> Content(code, "html"),
     css_content |-> Content(code, "css"),
     js_content |-> Content(code, "js"),
     is_published |-> FALSE,
     view_count |-> 0]

\* The store assigns the id of an inserted row; `by` records the request
\* that inserted it (not a column: bookkeeping for the properties).
NextId(table) == Cardinality(table) + 1

Stored(row, id, r) == [id |-> id, by |-> r, row |-> row]

\* ---------------------------------------------------------------- actions
\* A request arrives carrying payload p; the handler starts and suspends at
\* `await request.json()` (line 8).  Requests are numbered in arrival order.
Receive(r, p) ==
    /\ pc[r] = "idle"
    /\ IF r = 1 THEN TRUE ELSE pc[r - 1] # "idle"
    /\ pc' = [pc EXCEPT ![r] = "json"]
    /\ request' = [request EXCEPT ![r] = p]
    /\ UNCHANGED << apiKey, now, geminiResponse, generatedCode, portfolioData,
                    pendingInsert, response, trace, portfolio_data, portfolios >>
    /\ UNCHANGED otherVars

\* Lines 8-21: the body is parsed and destructured, the two checks run, and
\* the generation call is issued.  A throw lands in the catch block.
Intake(r) ==
    /\ pc[r] = "json"
    /\ IF ~request[r].json
       THEN Return(r, CatchResponse) /\ UNCHANGED trace
       ELSE IF MissingStructuredData(request[r])
       THEN Return(r, MissingInputResponse) /\ UNCHANGED trace
       ELSE IF MissingApiKey
       THEN Return(r, CatchResponse) /\ UNCHANGED trace
       ELSE /\ trace' = [trace EXCEPT ![r] = Append(@, "generateText")]
            /\ pc' = [pc EXCEPT ![r] = "generateText"]
            /\ UNCHANGED response
    /\ UNCHANGED << apiKey, now, request, geminiResponse, generatedCode, portfolioData,
                    pendingInsert, portfolio_data, portfolios >>
    /\ UNCHANGED otherVars

\* Lines 21-80: the generation call settles with outcome g; the text is
\* scanned and parsed; with a user identity the portfolio_data insert is
\* issued, without one the generated code is returned.
Generated(r, g) ==
    /\ pc[r] = "generateText"
    /\ geminiResponse' = [geminiResponse EXCEPT ![r] = g]
    /\ LET extracted == ExtractGeneratedCode(g.text) IN
       IF ~g.ok \/ ~extracted.ok
       THEN /\ Return(r, CatchResponse)
            /\ UNCHANGED << generatedCode, trace >>
       ELSE /\ generatedCode' = [generatedCode EXCEPT ![r] =
                                    [defined |-> TRUE, value |-> extracted.value]]
            /\ IF HasUserId(request[r])
               THEN /\ trace' = [trace EXCEPT ![r] = Append(@, "insert portfolio_data")]
                    /\ pc' = [pc EXCEPT ![r] = "insertData"]
                    /\ UNCHANGED response
               ELSE /\ Return(r, SuccessResponse(extracted.value))
                    /\ UNCHANGED trace
    /\ UNCHANGED << apiKey, now, request, portfolioData, pendingInsert,
                    portfolio_data, portfolios >>
    /\ UNCHANGED otherVars

\* Lines 65-117: the portfolio_data insert settles when the clock reads t (the
\* clock never runs backwards; only Date.now() of line 95 observes it).  With
\* dataError the store holds no new row (data is null) and the handler
\* throws; otherwise the row is stored under a fresh id and the handler builds
\* the portfolios row (which throws on a non-string name) and issues its
\* insert.
DataInserted(r, dataError, t) ==
    /\ pc[r] = "insertData"
    /\ now' = t
    /\ LET id == NextId(portfolio_data) IN
       IF DataInsertFailed(dataError)
       THEN /\ Return(r, CatchResponse)
            /\ trace' = [trace EXCEPT ![r] = Append(@, "portfolio_data error")]
            /\ UNCHANGED << portfolio_data, portfolioData, pendingInsert >>
       ELSE /\ portfolio_data' =
                   IF dataError THEN portfolio_data
                   ELSE portfolio_data \cup { Stored(PortfolioDataRow(request[r]), id, r) }
            /\ portfolioData' = [portfolioData EXCEPT ![r] = IF dataError THEN 0 ELSE id]
            /\ IF SlugThrows(request[r])
               THEN /\ Return(r, CatchResponse)
                    /\ trace' = [trace EXCEPT ![r] =
                           Append(@, IF dataError THEN "portfolio_data error"
                                                  ELSE "portfolio_data ok")]
                    /\ UNCHANGED pendingInsert
               ELSE /\ pendingInsert' = [pendingInsert EXCEPT ![r] =
                           PortfolioRow(request[r], portfolioData'[r],
                                        generatedCode[r].value, now')]
                    /\ trace' = [trace EXCEPT ![r] =
                           @ \o << IF dataError THEN "portfolio_data error"
                                                ELSE "portfolio_data ok",
                                   "insert portfolios" >>]
                    /\ pc' = [pc EXCEPT ![r] = "insertPortfolio"]
                    /\ UNCHANGED response
    /\ UNCHANGED << apiKey, request, geminiResponse, generatedCode, portfolios >>
    /\ UNCHANGED otherVars

\* Lines 89-133: the portfolios insert settles.  With portfolioError no row
\* is stored and the handler throws; otherwise the row is stored and the
\* generated code is returned.
PortfolioInserted(r, portfolioError) ==
    /\ pc[r] = "insertPortfolio"
    /\ portfolios' =
          IF portfolioError THEN portfolios
          ELSE portfolios \cup { Stored(pendingInsert[r], NextId(portfolios), r) }
    /\ trace' = [trace EXCEPT ![r] =
          Append(@, IF portfolioError THEN "portfolios error" ELSE "portfolios ok")]
    /\ IF PortfolioInsertFailed(portfolioError)
       THEN Return(r, CatchResponse)
       ELSE Return(r, SuccessResponse(generatedCode[r].value))
    /\ UNCHANGED << apiKey, now, request, geminiResponse, generatedCode, portfolioData,
                    pendingInsert, portfolio_data >>
    /\ UNCHANGED otherVars

Next ==
    \/ \E r \in Requests, p \in Payloads : Receive(r, p)
    \/ \E r \in Requests : Intake(r)
    \/ \E r \in Requests, g \in GenerateTextOutcomes : Generated(r, g)
    \/ \E r \in Requests, dataError \in BOOLEAN, t \in now..MaxClock :
          DataInserted(r, dataError, t)
    \/ \E r \in Requests, portfolioError \in BOOLEAN : PortfolioInserted(r, portfolioError)

Spec == Init /\ [][Next]_vars

\* ------------------------------------------------------------- properties
Done(r) == pc[r] = "done"

Count(seq, x) == Cardinality({ i \in DOMAIN seq : seq[i] = x })

Issued(r, call) == Count(trace[r], call) > 0

DataRowsBy(r) == { d \in portfolio_data : d.by = r }

PortfolioRowsBy(r) == { q \in portfolios : q.by = r }

PersistedNothing(r) == DataRowsBy(r) = {} /\ PortfolioRowsBy(r) = {}

ReturnedFallback(r) ==
    /\ Len(response[r]) = 1
    /\ response[r][1].status = 200
    /\ response[r][1].body = [success |-> TRUE, portfolio |-> fallbackPortfolio]

ReturnedGenerated(r) ==
    /\ Len(response[r]) = 1
    /\ response[r][1].status = 200
    /\ response[r][1].body = [success |-> TRUE, portfolio |-> generatedCode[r].value]

C3_DataBeforePortfolio ==
    /\ \A r \in Requests : \A i \in DOMAIN trace[r] :
          trace[r][i] = "insert portfolios"
          => /\ i > 2
             /\ trace[r][i - 1] = "portfolio_data ok"
             /\ trace[r][i - 2] = "insert portfolio_data"
    /\ \A r \in Requests :
          pc[r] = "insertPortfolio"
          => /\ pendingInsert[r].portfolio_data_id = portfolioData[r]
             /\ \E d \in DataRowsBy(r) : d.id = portfolioData[r]
    /\ \A q \in portfolios :
          /\ q.row.portfolio_data_id = portfolioData[q.by]
          /\ \E d \in portfolio_data : d.id = q.row.portfolio_data_id /\ d.by = q.by

\* C3 witness: two requests have both stored a portfolio, and the request
\* that arrived second wrote its portfolio_data row first.
C3_Witness ==
    /\ NumRequests >= 2
    /\ PortfolioRowsBy(1) # {} /\ PortfolioRowsBy(2) # {}
    /\ \E d \in DataRowsBy(2) : d.id = 1
    /\ \E q \in PortfolioRowsBy(1) : q.row.portfolio_data_id = 2

WellFormed(code) == DOMAIN code = {"html", "css", "js"}

BothInsertsSucceeded(r) ==
    Issued(r, "portfolio_data ok") /\ Issued(r, "portfolios ok")

\* C4: a request with structuredData and a user identity whose generation
\* yields a well-formed object and whose two inserts succeed creates exactly
\* one portfolio_data row and exactly one portfolios row linked to it, and is
\* answered with success=true and the generated object: neither the fallback
\* triple nor the stored record.
C4_SuccessPersistsOnePair ==
    \A r \in Requests :
        (/\ HasUserId(request[r])
         /\ generatedCode[r].defined /\ WellFormed(generatedCode[r].value)
         /\ BothInsertsSucceeded(r))
        => /\ Cardinality(DataRowsBy(r)) = 1
           /\ Cardinality(PortfolioRowsBy(r)) = 1
           /\ \A d \in DataRowsBy(r) : \A q \in PortfolioRowsBy(r) :
                 /\ q.row.portfolio_data_id = d.id
                 /\ q.row.html_content = generatedCode[r].value["html"]
                 /\ q.row.css_content = generatedCode[r].value["css"]
                 /\ q.row.js_content = generatedCode[r].value["js"]
           /\ Done(r)
           /\ ReturnedGenerated(r)
           /\ DOMAIN response[r][1].body = {"success", "portfolio"}
           /\ DOMAIN response[r][1].body.portfolio = {"html", "css", "js"}
           /\ response[r][1].body.portfolio # fallbackPortfolio

\* C4 witness: a request has been answered after both of its inserts
\* succeeded, with prose around the JSON object in the generated text.
C4_Witness ==
    \E r \in Requests :
        /\ Done(r) /\ HasUserId(request[r]) /\ BothInsertsSucceeded(r)
        /\ geminiResponse[r].text = <<"x", "{", "h", "c", "j", "}", "x">>

\* C5: a request without a user identity never inserts anything, and when its
\* generation succeeds it is answered with success=true and the generated
\* object.
C5_NoIdentityNoPersistence ==
    \A r \in Requests :
        (pc[r] # "idle" /\ request[r].json /\ request[r].userId = "")
        => /\ PersistedNothing(r)
           /\ ~Issued(r, "insert portfolio_data")
           /\ ~Issued(r, "insert portfolios")
           /\ generatedCode[r].defined => Done(r) /\ ReturnedGenerated(r)

\* C5 witness: a request without identity has been answered with generated
\* content while another request has stored both of its rows.
C5_Witness ==
    \E r \in Requests :
        /\ Done(r) /\ request[r].json /\ request[r].userId = ""
        /\ generatedCode[r].defined
        /\ portfolio_data # {} /\ portfolios # {}

Settled(r) == geminiResponse[r] # NoOutcome

HasBracePair(text) == Positions(text, "{") # {} /\ Positions(text, "}") # {}

\* The characters from the first "{" to the last "}", both included (none when
\* the last "}" comes before the first "{").
Bracketed(text) ==
    LET first == Min(Positions(text, "{"))
        last == Max(Positions(text, "}"))
    IN  IF first <= last THEN [ i \in 1..(last - first + 1) |-> text[first + i - 1] ]
        ELSE << >>

GenerationUnusable(g) ==
    \/ ~g.ok
    \/ ~HasBracePair(g.text)
    \/ ~JSONParses(Bracketed(g.text))

\* C6 as stated: when the generation call fails, or its text has no "{" / "}"
\* pair, or the text from the first "{" to the last "}" is malformed JSON, the
\* request is answered with the fallback triple and success=true and inserts
\* nothing, with or without a user identity.
C6_Original ==
    \A r \in Requests :
        (Settled(r) /\ GenerationUnusable(geminiResponse[r]))
        => /\ Done(r)
           /\ ReturnedFallback(r)
           /\ PersistedNothing(r)
           /\ trace[r] = << "generateText" >>

\* The request ended in the catch block: something threw.
Threw(r) ==
    /\ Done(r)
    /\ \/ ~request[r].json
       \/ ~MissingStructuredData(request[r]) /\ trace[r] = << >>
       \/ Settled(r) /\ (~geminiResponse[r].ok
                        \/ ~ExtractGeneratedCode(geminiResponse[r].text).ok)
       \/ Issued(r, "portfolio_data error")
       \/ Issued(r, "portfolio_data ok") /\ ~Issued(r, "insert portfolios")
       \/ Issued(r, "portfolios error")

\* C7 as stated: a request that ends on the fallback path has persisted
\* nothing: no portfolio_data row and no portfolios row of its own exists.
C7_Original ==
    \A r \in Requests :
        (Done(r) /\ ReturnedFallback(r)) => PersistedNothing(r)

\* C7 amended: a request that ends on the fallback path is answered with the
\* fixed fallback triple and has stored no portfolios row; it has stored a
\* portfolio_data row (exactly one) exactly when the failure came after its
\* portfolio_data insert had succeeded.
C7_FallbackPersistsNoPortfolio ==
    \A r \in Requests :
        (Threw(r) \/ (Done(r) /\ ReturnedFallback(r)))
        => /\ ReturnedFallback(r)
           /\ PortfolioRowsBy(r) = {}
           /\ Cardinality(DataRowsBy(r)) =
                 IF Issued(r, "portfolio_data ok") THEN 1 ELSE 0

\* C7 witness: a request ended on the fallback path after its portfolios
\* insert failed, leaving its portfolio_data row behind.
C7_Witness ==
    \E r \in Requests :
        /\ Done(r) /\ ReturnedFallback(r)
        /\ Issued(r, "portfolios error")
        /\ DataRowsBy(r) # {}

\* C8: when the portfolio_data insert fails after a successful generation, the
\* portfolios insert is never attempted, the request stores nothing, and the
\* caller gets the fallback triple with success=true, not the generated code.
C8_DataInsertFailureAborts ==
    \A r \in Requests :
        Issued(r, "portfolio_data error")
        => /\ generatedCode[r].defined
           /\ ~Issued(r, "insert portfolios")
           /\ PersistedNothing(r)
           /\ Done(r)
           /\ ReturnedFallback(r)
           /\ ~ReturnedGenerated(r)

\* C8 witness: the portfolio_data insert of a request with well-formed
\* generated code failed.
C8_Witness ==
    \E r \in Requests :
        /\ Issued(r, "portfolio_data error")
        /\ WellFormed(generatedCode[r].value)
        /\ Done(r)

\* C9: when the portfolios insert fails after the portfolio_data insert
\* succeeded, the caller gets the fallback triple with success=true, the
\* portfolio_data row stays stored with no portfolios row referencing it, and
\* neither insert is attempted a second time.
C9_PortfolioInsertFailureOrphans ==
    \A r \in Requests :
        Issued(r, "portfolios error")
        => /\ Done(r)
           /\ ReturnedFallback(r)
           /\ Cardinality(DataRowsBy(r)) = 1
           /\ \A d \in DataRowsBy(r) :
                 /\ d.id = portfolioData[r]
                 /\ \A q \in portfolios : q.row.portfolio_data_id # d.id
           /\ PortfolioRowsBy(r) = {}
           /\ Count(trace[r], "insert portfolio_data") = 1
           /\ Count(trace[r], "insert portfolios") = 1

\* C9 witness: a request's portfolios insert failed and afterwards another
\* request stored both of its rows.
C9_Witness ==
    \E r \in Requests :
        /\ Issued(r, "portfolios error")
        /\ \E q \in portfolios : q.row.portfolio_data_id > portfolioData[r]

\* C10: a request never has more than one response and has exactly one once
\* its handler has returned; the response is the 400 error exactly for a
\* parsed payload without (truthy) structuredData, and in every other outcome
\* it is 200 with success=true and a portfolio object, generated or fallback.
C10_OnlyMissingInputIsAnError ==
    \A r \in Requests :
        /\ Len(response[r]) = IF Done(r) THEN 1 ELSE 0
        /\ Done(r) =>
              IF request[r].json /\ request[r].structuredData \in {"absent", "falsy"}
              THEN response[r][1] =
                      [status |-> 400, body |-> [error |-> "No structured data provided"]]
              ELSE /\ response[r][1].status = 200
                   /\ DOMAIN response[r][1].body = {"success", "portfolio"}
                   /\ response[r][1].body.success = TRUE
                   /\ \/ ReturnedFallback(r)
                      \/ generatedCode[r].defined /\ ReturnedGenerated(r)

\* C10 witness: one request was answered with generated content and another
\* with the fallback after a failed insert, both with status 200.
C10_Witness ==
    \E r1, r2 \in Requests :
        /\ Done(r1) /\ generatedCode[r1].defined /\ ReturnedGenerated(r1)
        /\ Done(r2) /\ Issued(r2, "portfolio_data error") /\ ReturnedFallback(r2)
        /\ response[r1][1].status = response[r2][1].status

\* C11 as stated: two identical requests (same structured data, same user
\* identity) that both succeed leave two distinct portfolio_data rows and two
\* distinct portfolios rows whose slugs differ, whatever the interleaving and
\* whatever the clock readings.
C11_Original ==
    \A r1, r2 \in Requests :
        (/\ r1 # r2
         /\ request[r1] = request[r2]
         /\ HasUserId(request[r1])
         /\ BothInsertsSucceeded(r1) /\ BothInsertsSucceeded(r2))
        => /\ \A d1 \in DataRowsBy(r1), d2 \in DataRowsBy(r2) : d1.id # d2.id
           /\ \A q1 \in PortfolioRowsBy(r1), q2 \in PortfolioRowsBy(r2) :
                 /\ q1.id # q2.id
                 /\ q1.row.slug # q2.row.slug

ContentKeys == {"html", "css", "js"}

\* The keys among html, css, js that the object in the text carries.
KeysInText(text) ==
    { KeyOf(text[i]) : i \in { k \in 1..Len(text) : text[k] \in {"h", "c", "j"}
                                                     /\ Depth(text, k) = 1 } }

\* C12 as stated: whenever a request is answered with generated content, the
\* object returned has all three keys html, css and js.
C12_Original ==
    \A r \in Requests :
        (Done(r) /\ generatedCode[r].defined /\ ReturnedGenerated(r))
        => ContentKeys \subseteq DOMAIN response[r][1].body.portfolio

\* C12 amended: the content returned on the success path is the parsed value
\* as it is: it has a key among html, css, js exactly when the generated text
\* gave that key; in the stored portfolios row a missing key is the empty
\* string, never null, and a present key is the generated value.
C12_ParsedValueReturnedUnchecked ==
    /\ \A r \in Requests :
          (Done(r) /\ generatedCode[r].defined /\ ReturnedGenerated(r))
          => /\ response[r][1].body.portfolio # fallbackPortfolio
             /\ DOMAIN response[r][1].body.portfolio \cap ContentKeys
                   = KeysInText(geminiResponse[r].text)
    /\ \A q \in portfolios :
          LET keys == KeysInText(geminiResponse[q.by].text)
              col(k) == IF k = "html" THEN q.row.html_content
                        ELSE IF k = "css" THEN q.row.css_content
                        ELSE q.row.js_content
          IN  \A k \in ContentKeys :
                 col(k) = IF k \in keys THEN <<"generated", k>> ELSE << >>

\* C12 witness: a request whose generated object has only the html key was
\* answered with that object and stored its row.
C12_Witness ==
    \E r \in Requests :
        /\ Done(r) /\ ReturnedGenerated(r) /\ BothInsertsSucceeded(r)
        /\ geminiResponse[r].text = <<"{", "h", "}">>
        /\ \E q \in PortfolioRowsBy(r) : q.row.css_content = << >>

\* ------------------------------------------------- the extraction alone
\* The characters a text is made of.
Chars == {"{", "}", "h", "n", "1", "x"}

\* The generation service produces one more character of its text.
Emit(ch) ==
    /\ ~extraction.ran
    /\ Len(rawText) < MaxTextLen
    /\ rawText' = Append(rawText, ch)
    /\ UNCHANGED << extraction, postVars, authVars, dashVars >>

\* Lines 52-61 run on the complete text.
Scan ==
    /\ ~extraction.ran
    /\ extraction' = [ran |-> TRUE,
                     ok |-> ExtractGeneratedCode(rawText).ok,
                     value |-> ExtractGeneratedCode(rawText).value]
    /\ UNCHANGED << rawText, postVars, authVars, dashVars >>

NextExtract ==
    \/ \E ch \in Chars : Emit(ch)
    \/ Scan

InitExtract == PostIdle /\ ExtractInit /\ AuthInit /\ DashInit

SpecExtract == InitExtract /\ [][NextExtract]_vars

\* C13 as stated: the extraction signals an error when the text has no "{" or
\* no "}"; otherwise it parses exactly the characters from the first "{" to
\* the last "}", both included: it succeeds exactly when they are valid JSON
\* and then yields their value.
C13_Original ==
    extraction.ran =>
        IF ~HasBracePair(rawText)
        THEN ~extraction.ok
        ELSE /\ extraction.ok = JSONParses(Bracketed(rawText))
             /\ extraction.ok => extraction.value = JSONParse(Bracketed(rawText))

\* ------------------------------------------- the auth provider and its guard
\* The users an auth change can sign in; "null" is the signed-out session.
AuthUsers == {"alice", "bob"}
Sessions == AuthUsers \cup {"null"}

\* AuthGuard's defaults and targets.
RedirectTo == "/auth/signin"
DashboardPath == "/dashboard"

\* What AuthGuard returns for the props and the provider state it reads.
GuardOutput(ra, u, l) ==
    IF l \/ (ra /\ u = "null") THEN "placeholder" ELSE "children"

\* The early return of AuthGuard's effect (mutant: no early return).
EffectSkips_never(l) == FALSE

\* The early return of AuthGuard's effect.
EffectSkips(l) == l

\* The router.replace calls one run of AuthGuard's effect makes.
Redirects(ra, ap, u, l) ==
    IF EffectSkips(l)
    THEN {}
    ELSE {[to |-> RedirectTo, user |-> u, loading |-> l] :
              x \in IF ra /\ u = "null" THEN {1} ELSE {}}
         \cup
         {[to |-> DashboardPath, user |-> u, loading |-> l] :
              x \in IF ~ra /\ u # "null" /\ ap THEN {1} ELSE {}}

\* React commits the provider state (u, l): the guard renders again for it,
\* and its effect is due when one of its dependencies changed.
Commit(u, l) ==
    /\ user' = u
    /\ loading' = l
    /\ rendered' = GuardOutput(requireAuth, u, l)
    /\ effectPending' = (u # user \/ l # loading)

\* A state update waits for the effects of the commit before it.
Flushed == ~effectPending

\* The provider mounts with a guard under it: the guard renders, the
\* provider's effect calls initializeAuth() and subscribes.
Mount(ra, ap) ==
    /\ provider = "new"
    /\ provider' = "mounted"
    /\ requireAuth' = ra
    /\ onAuthPath' = ap
    /\ initializeAuth' = "called"
    /\ rendered' = GuardOutput(ra, user, loading)
    /\ effectPending' = TRUE
    /\ UNCHANGED << session, authEvents, emitted, user, loading, currentUser,
                    lastEvent, signingIn, redirects, postVars, extractVars, dashVars >>

\* The session changes at the auth service, which emits an event to the
\* subscriber (an event for an unchanged session is the initial-session event).
AuthChange(u) ==
    /\ emitted < MaxAuthChanges
    /\ emitted' = emitted + 1
    /\ session' = u
    /\ authEvents' = IF provider = "mounted" THEN Append(authEvents, u) ELSE authEvents
    /\ UNCHANGED << provider, user, loading, initializeAuth, currentUser, lastEvent,
                    signingIn, requireAuth, onAuthPath, effectPending, rendered,
                    redirects, postVars, extractVars, dashVars >>

\* The onAuthStateChange callback runs for the oldest undelivered event.
Deliver ==
    /\ authEvents # << >>
    /\ Flushed
    /\ authEvents' = Tail(authEvents)
    /\ IF provider = "mounted"
       THEN /\ Commit(Head(authEvents), FALSE)
            /\ lastEvent' = Head(authEvents)
       ELSE UNCHANGED << user, loading, rendered, effectPending, lastEvent >>
    /\ UNCHANGED << session, emitted, provider, initializeAuth, currentUser,
                    signingIn, requireAuth, onAuthPath, redirects,
                    postVars, extractVars, dashVars >>

\* getCurrentUser() reads the session at the auth service.
GetCurrentUser ==
    /\ initializeAuth = "called"
    /\ initializeAuth' = "sampled"
    /\ currentUser' = session
    /\ UNCHANGED << session, authEvents, emitted, provider, user, loading, lastEvent,
                    signingIn, requireAuth, onAuthPath, effectPending, rendered,
                    redirects, postVars, extractVars, dashVars >>

\* initializeAuth continues after the await: setUser(currentUser), then the
\* finally block.
InitializeResolved ==
    /\ initializeAuth = "sampled"
    /\ Flushed
    /\ initializeAuth' = "done"
    /\ IF provider = "mounted"
       THEN Commit(currentUser, FALSE)
       ELSE UNCHANGED << user, loading, rendered, effectPending >>
    /\ UNCHANGED << session, authEvents, emitted, provider, currentUser, lastEvent,
                    signingIn, requireAuth, onAuthPath, redirects,
                    postVars, extractVars, dashVars >>

\* getCurrentUser() rejects: the catch block, then the finally block.
InitializeRejected ==
    /\ initializeAuth = "called"
    /\ Flushed
    /\ initializeAuth' = "done"
    /\ IF provider = "mounted"
       THEN Commit("null", FALSE)
       ELSE UNCHANGED << user, loading, rendered, effectPending >>
    /\ UNCHANGED << session, authEvents, emitted, provider, currentUser, lastEvent,
                    signingIn, requireAuth, onAuthPath, redirects,
                    postVars, extractVars, dashVars >>

\* signIn or signUp is called: setLoading(true).
SignInStart ==
    /\ provider = "mounted"
    /\ ~signingIn
    /\ Flushed
    /\ signingIn' = TRUE
    /\ Commit(user, TRUE)
    /\ UNCHANGED << session, authEvents, emitted, provider, initializeAuth,
                    currentUser, lastEvent, requireAuth, onAuthPath, redirects,
                    postVars, extractVars, dashVars >>

\* The auth service answered signIn or signUp: the finally block.
SignInEnd ==
    /\ signingIn
    /\ Flushed
    /\ signingIn' = FALSE
    /\ IF provider = "mounted"
       THEN Commit(user, FALSE)
       ELSE UNCHANGED << user, loading, rendered, effectPending >>
    /\ UNCHANGED << session, authEvents, emitted, provider, initializeAuth,
                    currentUser, lastEvent, requireAuth, onAuthPath, redirects,
                    postVars, extractVars, dashVars >>

\* AuthGuard's effect runs for the committed state.
GuardEffect ==
    /\ provider = "mounted"
    /\ effectPending
    /\ effectPending' = FALSE
    /\ redirects' = redirects \cup Redirects(requireAuth, onAuthPath, user, loading)
    /\ UNCHANGED << session, authEvents, emitted, provider, user, loading,
                    initializeAuth, currentUser, lastEvent, signingIn, requireAuth,
                    onAuthPath, rendered, postVars, extractVars, dashVars >>

\* The provider unmounts: the effect's cleanup, and the guard is gone.
Unmount ==
    /\ provider = "mounted"
    /\ provider' = "unmounted"
    /\ rendered' = "nothing"
    /\ effectPending' = FALSE
    /\ UNCHANGED << session, authEvents, emitted, user, loading, initializeAuth,
                    currentUser, lastEvent, signingIn, requireAuth, onAuthPath,
                    redirects, postVars, extractVars, dashVars >>

NextAuth ==
    \/ \E ra \in BOOLEAN, ap \in BOOLEAN : Mount(ra, ap)
    \/ \E u \in Sessions : AuthChange(u)
    \/ Deliver
    \/ GetCurrentUser
    \/ InitializeResolved
    \/ InitializeRejected
    \/ SignInStart
    \/ SignInEnd
    \/ GuardEffect
    \/ Unmount

SpecAuth == InitExtract /\ [][NextAuth]_vars

\* C14 as stated: once startup has completed and at least one auth-change
\* event has been delivered (and none is waiting), the provider's user is the
\* user of the event delivered last; a startup fetch that resolves late does
\* not replace it.
C14_Original ==
    (/\ provider = "mounted"
     /\ initializeAuth = "done"
     /\ authEvents = << >>
     /\ lastEvent # "none")
        => user = lastEvent

\* C16: a guard that requires login shows its children only in a state with
\* loading false and a user present and shows the placeholder in every other
\* state, and every redirect to its sign-in target was made in a state with
\* loading false and no user.
C16_GuardHidesAndRedirectsOnlySignedOut ==
    requireAuth =>
        /\ rendered = "children" => (~loading /\ user # "null")
        /\ (provider = "mounted" /\ (loading \/ user = "null"))
               => rendered = "placeholder"
        /\ \A rd \in redirects :
               rd.to = RedirectTo => (~rd.loading /\ rd.user = "null")

\* C16 witness: a guard that requires login redirected to the sign-in target
\* and, after a later sign-in was delivered, shows its children.
C16_Witness ==
    /\ requireAuth
    /\ \E rd \in redirects : rd.to = RedirectTo
    /\ rendered = "children"
    /\ lastEvent \in AuthUsers

\* ------------------------------------------------------ the dashboard page
\* The user ids getUser() can resolve to.
DashUsers == {"u1", "u2"}

\* How getUser() can settle: with a user, with an error result or no user, or
\* by rejecting.
GetUserOutcomes == DashUsers \cup {"error", "rejects"}

\* How one read can settle: rows, an error result (data null), or rejecting.
ReadOutcomes == {"data", "nodata", "rejected"}

\* Promise.all is fulfilled once every read is fulfilled.
AllFulfilled(qs) == \A q \in Reads : qs[q] \in {"data", "nodata"}

\* Promise.all is rejected as soon as one read rejects.
AnyRejected(qs) == \E q \in Reads : qs[q] = "rejected"

\* The page mounts: the effect calls fetchData(), which sets loading and
\* awaits getUser().
DashMount ==
    /\ dashPc = "new"
    /\ dashPc' = "getUser"
    /\ dashLoading' = TRUE
    /\ UNCHANGED << dashUser, queries, shown, postVars, extractVars, authVars >>

\* getUser() settles; with a user, the three reads are issued together.
GetUserSettled(o) ==
    /\ dashPc = "getUser"
    /\ IF o = "rejects"
       THEN /\ dashPc' = "rejected"
            /\ UNCHANGED << dashLoading, dashUser, queries >>
       ELSE IF o = "error"
       THEN /\ dashPc' = "done"
            /\ dashLoading' = FALSE
            /\ UNCHANGED << dashUser, queries >>
       ELSE /\ dashPc' = "queries"
            /\ dashUser' = o
            /\ queries' = [q \in Reads |-> "pending"]
            /\ UNCHANGED dashLoading
    /\ UNCHANGED << shown, postVars, extractVars, authVars >>

\* One read settles. While fetchData awaits Promise.all, the settlement that
\* fulfils or rejects it resumes fetchData: the rows are put into the page
\* state (or the catch block runs), then the finally block.
ReadSettled(q, o) ==
    /\ queries[q] = "pending"
    /\ queries' = [queries EXCEPT ![q] = o]
    /\ IF dashPc = "queries" /\ AllFulfilled(queries')
       THEN /\ shown' = {x \in Reads : queries'[x] = "data"}
            /\ dashLoading' = FALSE
            /\ dashPc' = "done"
       ELSE IF dashPc = "queries" /\ AnyRejected(queries')
       THEN /\ dashLoading' = FALSE
            /\ dashPc' = "done"
            /\ UNCHANGED shown
       ELSE UNCHANGED << shown, dashLoading, dashPc >>
    /\ UNCHANGED << dashUser, postVars, extractVars, authVars >>

NextDash ==
    \/ DashMount
    \/ \E o \in GetUserOutcomes : GetUserSettled(o)
    \/ \E q \in Reads, o \in ReadOutcomes : ReadSettled(q, o)

SpecDash == InitExtract /\ [][NextDash]_vars

\* fetchData has run to its end (returned or rejected).
FetchDataEnded == dashPc \in {"done", "rejected"}

\* C15 as stated: once the reads are issued, the page leaves its loading
\* state only when all three reads have completed or failed; and on every
\* path on which fetchData ends, the loading state has been left.
C15_Original ==
    /\ (dashUser # "null" /\ ~dashLoading) => \A q \in Reads : queries[q] # "pending"
    /\ FetchDataEnded => ~dashLoading

====
